---- MODULE Spec2Model ----
(***************************************************************************)
(* A model of the angulator mediator: the registry built by                *)
(* provideMediator, the request dispatch of Mediator (send, sendAsync,     *)
(* sendSimple) through the pipeline behaviors, and Mediator.publish.       *)
(***************************************************************************)
EXTENDS Integers, Sequences, FiniteSets, TLC

VARIABLES phase, handlers, providers, requestHandlerMap, notificationHandlerMap,
          pipelineBehaviors, call, subscriptions, delivered, constructed,
          settled

vars == <<phase, handlers, providers, requestHandlerMap, notificationHandlerMap,
          pipelineBehaviors, call, subscriptions, delivered, constructed,
          settled>>

(***************************************************************************)
(* Bounds of the model.                                                    *)
(***************************************************************************)
\* longest class list handed to provideMediator
MaxHandlers == 3
\* longest PIPELINE_BEHAVIORS list
MaxBehaviors == 2
\* most subscriptions to one Observable returned by send
MaxSubscriptions == 2

(***************************************************************************)
(* The classes of the application.  A constructor is identified by a       *)
(* number; ConstructorName is its `name` property.                         *)
(***************************************************************************)
TestRequest == 1
UnhandledRequest == 2
TestNotification == 3
AnotherNotification == 4

RequestTypes == {TestRequest, UnhandledRequest}
NotificationTypes == {TestNotification, AnotherNotification}

ConstructorName(c) ==
    CASE c = TestRequest -> "TestRequest"
      [] c = UnhandledRequest -> "UnhandledRequest"
      [] c = TestNotification -> "TestNotification"
      [] c = AnotherNotification -> "AnotherNotification"

\* request and notification objects: the constructor and the object's identity
Instances == {1, 2}
Requests == [constructor : RequestTypes, id : Instances]
Notifications == [constructor : NotificationTypes, id : Instances]

\* the classes that can be handed to provideMediator
RequestHandlerClasses == {"TestRequestHandler", "OtherTestRequestHandler"}
NotificationHandlerClasses == {"TestNotificationHandler", "AnotherTestNotificationHandler"}
HandlerClasses ==
    RequestHandlerClasses \cup NotificationHandlerClasses \cup {"NonHandlerClass"}

NoMetadata == 0

\* Reflect.getMetadata(REQUEST_HANDLER_METADATA_KEY, handler), as the
\* RequestHandler decorator defined it
RequestHandlerMetadata(handler) ==
    IF handler \in RequestHandlerClasses THEN TestRequest ELSE NoMetadata

\* Reflect.getMetadata(NOTIFICATION_HANDLER_METADATA_KEY, handler), as the
\* NotificationHandler decorator defined it
NotificationHandlerMetadata(handler) ==
    IF handler \in NotificationHandlerClasses THEN TestNotification ELSE NoMetadata

(***************************************************************************)
(* JavaScript Map: a function on the keys present.                         *)
(***************************************************************************)
EmptyMap == <<>>
MapHas(m, k) == k \in DOMAIN m
MapSet(m, k, v) == [x \in (DOMAIN m) \cup {k} |-> IF x = k THEN v ELSE m[x]]

(***************************************************************************)
(* provideMediator                                                         *)
(***************************************************************************)
\* a registration that keeps the first class declaring a request type
SetFirstWins(m, request, handler) ==
    IF MapHas(m, request) THEN m ELSE MapSet(m, request, handler)

\* handlerMap.set(request, handler): a later class replaces an earlier one
SetRequestHandler(m, request, handler) == MapSet(m, request, handler)

\* the forEach body's first half, on the request map
RegisterRequest(m, handler) ==
    LET request == RequestHandlerMetadata(handler)
    IN IF request # NoMetadata THEN SetRequestHandler(m, request, handler) ELSE m

\* a registration that puts the newest class first in the list
RegisterNotificationPrepend(m, handler) ==
    LET notification == NotificationHandlerMetadata(handler)
    IN IF notification # NoMetadata
       THEN LET existing == IF MapHas(m, notification) THEN m[notification] ELSE <<>>
            IN MapSet(m, notification, <<handler>> \o existing)
       ELSE m

\* the forEach body's second half, on the notification map
RegisterNotification(m, handler) ==
    LET notification == NotificationHandlerMetadata(handler)
    IN IF notification # NoMetadata
       THEN LET existing == IF MapHas(m, notification) THEN m[notification] ELSE <<>>
            IN MapSet(m, notification, Append(existing, handler))
       ELSE m

\* a loop that starts at the second class of the list
RECURSIVE BuildRequestMapSkipFirst(_, _)
BuildRequestMapSkipFirst(hs, n) ==
    IF n <= 1 THEN EmptyMap
    ELSE RegisterRequest(BuildRequestMapSkipFirst(hs, n - 1), hs[n])

RECURSIVE BuildRequestMap(_, _)
BuildRequestMap(hs, n) ==
    IF n = 0 THEN EmptyMap ELSE RegisterRequest(BuildRequestMap(hs, n - 1), hs[n])

RECURSIVE BuildNotificationMap(_, _)
BuildNotificationMap(hs, n) ==
    IF n = 0 THEN EmptyMap
    ELSE RegisterNotification(BuildNotificationMap(hs, n - 1), hs[n])

\* a provider array that forwards only the classes that carry metadata
ProviderListHandlersOnly(hs) ==
    <<"Mediator">>
        \o SelectSeq(hs, LAMBDA h : RequestHandlerMetadata(h) # NoMetadata
                                       \/ NotificationHandlerMetadata(h) # NoMetadata)
        \o <<"REQUEST_HANDLER_MAP", "NOTIFICATION_HANDLER_MAP">>

\* the returned provider array; the two useValue maps are the variables
\* requestHandlerMap and notificationHandlerMap
ProviderList(hs) ==
    <<"Mediator">> \o hs \o <<"REQUEST_HANDLER_MAP", "NOTIFICATION_HANDLER_MAP">>

RECURSIVE SeqsUpTo(_, _)
SeqsUpTo(S, n) ==
    IF n = 0 THEN {<<>>}
    ELSE LET shorter == SeqsUpTo(S, n - 1)
         IN shorter \cup {Append(s, x) : s \in shorter, x \in S}

HandlerLists == SeqsUpTo(HandlerClasses, MaxHandlers)

(***************************************************************************)
(* JavaScript values and errors.  An error is the tuple of the parts of    *)
(* its message.  A value has a kind (plain, promise, observable), the      *)
(* place that made it, the values it holds or will deliver, and the error  *)
(* it rejects or terminates with.                                          *)
(***************************************************************************)
NoError == <<>>
\* a message that names the base type instead of the request's constructor
HandlerNotFoundObject(request) == <<"No handler found for request: ", "Object">>
HandlerNotFound(request) ==
    <<"No handler found for request: ", ConstructorName(request.constructor)>>
SynchronousOnly == <<"sendSimple can only be used with synchronous handlers">>
HandlerError == <<"Handler Error">>
BehaviorError == <<"Behavior Error">>
ObservableError == <<"Observable Error">>
PromiseError == <<"Promise Error">>
NotificationError == <<"Notification Handler Error">>
EmptyError == <<"no elements in sequence">>
TypeError == <<"source.subscribe is not a function">>

Undefined == [kind |-> "undefined", by |-> "none", vals |-> <<>>, error |-> NoError]
Plain(by, v) == [kind |-> "plain", by |-> by, vals |-> <<v>>, error |-> NoError]
Resolved(by, v) == [kind |-> "promise", by |-> by, vals |-> <<v>>, error |-> NoError]
Rejected(by, e) == [kind |-> "promise", by |-> by, vals |-> <<>>, error |-> e]
ObservableOf(by, vs, e) == [kind |-> "observable", by |-> by, vals |-> vs, error |-> e]

\* rxjs isObservable(x)
isObservable(x) == x.kind = "observable"
\* x instanceof Promise
isPromise(x) == x.kind = "promise"
\* rxjs of(x): delivers x, then completes
of(x) == ObservableOf("of", x.vals, NoError)
\* rxjs from(promise): delivers the resolved value and completes, or fails
\* with the rejection
from(p) == ObservableOf("from", p.vals, p.error)
\* rxjs firstValueFrom(source): resolves to the first value delivered, rejects
\* with the source's error or, for a source that completes empty, EmptyError;
\* a source without subscribe makes the promise executor throw
firstValueFrom(source) ==
    IF ~isObservable(source) THEN Rejected("firstValueFrom", TypeError)
    ELSE IF source.vals # <<>> THEN Resolved("firstValueFrom", source.vals[1])
    ELSE IF source.error # NoError THEN Rejected("firstValueFrom", source.error)
    ELSE Rejected("firstValueFrom", EmptyError)

(***************************************************************************)
(* A completion: how a call ended (return or throw), with the events it    *)
(* caused, in order.                                                       *)
(***************************************************************************)
\* an event: what happened, the position of the behavior or list entry, the
\* class, the argument received, and (for a call of the innermost continuation
\* of a request) the value the continuation returned
Event(ev, idx, cls, arg) ==
    [ev |-> ev, idx |-> idx, cls |-> cls, arg |-> arg, out |-> Undefined]
\* the log whose last event returned v
Returning(log, v) == [log EXCEPT ![Len(log)].out = v]
Returned(log, val) == [tag |-> "return", log |-> log, val |-> val, error |-> NoError]
Thrown(log, e) == [tag |-> "throw", log |-> log, val |-> Undefined, error |-> e]

\* what a request handler's handle does, chosen by the application
HandlerResults ==
    {"value", "promise", "promiseRejected", "observable", "observableError", "throw"}

\* handler.handle(request) of the application's request handler
HandlerHandle(handler, request, hr) ==
    LET log == <<Event("handle", 0, handler, request)>>
    IN CASE hr = "value" -> Returned(log, Plain("handler", "response"))
         [] hr = "promise" -> Returned(log, Resolved("handler", "response"))
         [] hr = "promiseRejected" -> Returned(log, Rejected("handler", PromiseError))
         [] hr = "observable" ->
                Returned(log, ObservableOf("handler", <<"response">>, NoError))
         [] hr = "observableError" ->
                Returned(log, ObservableOf("handler", <<>>, ObservableError))
         [] hr = "throw" -> Thrown(log, HandlerError)

\* the kinds of pipeline behavior of the application
BehaviorKinds == {"pass", "replace", "short", "shortObservable", "throw", "twice"}

\* behavior.handle(request, next) of the application's i-th behavior; next is
\* the completion of one call of the continuation
BehaviorHandle(kind, i, request, next) ==
    LET pre == <<Event("pre", i, "behavior", request)>>
        post == <<Event("post", i, "behavior", request)>>
    IN CASE kind = "pass" ->
                IF next.tag = "throw" THEN Thrown(pre \o next.log, next.error)
                ELSE Returned(pre \o next.log \o post, next.val)
         [] kind = "replace" ->
                IF next.tag = "throw" THEN Thrown(pre \o next.log, next.error)
                ELSE Returned(pre \o next.log \o post, Plain("behavior", "replaced"))
         [] kind = "short" -> Returned(pre, Plain("behavior", "cached"))
         [] kind = "shortObservable" ->
                Returned(pre, ObservableOf("behavior", <<"cached">>, NoError))
         [] kind = "throw" -> Thrown(pre, BehaviorError)
         [] kind = "twice" ->
                IF next.tag = "throw" THEN Thrown(pre \o next.log, next.error)
                ELSE Returned(pre \o next.log \o next.log \o post, next.val)

(***************************************************************************)
(* Mediator                                                                *)
(***************************************************************************)
\* this.pipelineBehaviors || []
BehaviorsOrEmpty(pb) == IF pb.provided THEN pb.list ELSE <<>>

\* Mediator.getHandler: the map lookup, the throw, and injector.get
getHandler(map, request) ==
    IF ~MapHas(map, request.constructor)
    THEN Thrown(<<>>, HandlerNotFound(request))
    ELSE Returned(<<Event("get", 0, map[request.constructor], request)>>, Undefined)

\* a `handle` closure that returns the handler's result as it is
sendHandleRaw(handler, request, hr) ==
    LET h == HandlerHandle(handler, request, hr)
    IN IF h.tag = "throw" THEN h ELSE Returned(Returning(h.log, h.val), h.val)

\* the closure `handle` of send: the handler's result as an Observable
sendHandlePromiseRaw(handler, request, hr) ==
    LET h == HandlerHandle(handler, request, hr)
    IN IF h.tag = "throw" THEN h
       ELSE IF isObservable(h.val) \/ isPromise(h.val)
            THEN Returned(Returning(h.log, h.val), h.val)
       ELSE Returned(Returning(h.log, of(h.val)), of(h.val))
sendHandle(handler, request, hr) ==
    LET h == HandlerHandle(handler, request, hr)
    IN IF h.tag = "throw" THEN h
       ELSE IF isObservable(h.val) THEN Returned(Returning(h.log, h.val), h.val)
       ELSE IF isPromise(h.val) THEN Returned(Returning(h.log, from(h.val)), from(h.val))
       ELSE Returned(Returning(h.log, of(h.val)), of(h.val))

\* the closure `handle` of sendSimple: the handler's result as it is
sendSimpleHandle(handler, request, hr) ==
    LET h == HandlerHandle(handler, request, hr)
    IN IF h.tag = "throw" THEN h ELSE Returned(Returning(h.log, h.val), h.val)

\* the closure that reduce (instead of reduceRight) builds for behaviors[..i]
RECURSIVE pipelineReduce(_, _, _, _)
pipelineReduce(behaviors, i, request, handle) ==
    IF i < 1 THEN handle
    ELSE BehaviorHandle(behaviors[i], i, request,
                        pipelineReduce(behaviors, i - 1, request, handle))

\* a chain whose continuations run the rest of the chain on their first call
\* only and answer a later call with the first result
RECURSIVE pipelineFromMemo(_, _, _, _)
pipelineFromMemo(behaviors, i, request, handle) ==
    IF i > Len(behaviors) THEN handle
    ELSE BehaviorHandle(IF behaviors[i] = "twice" THEN "pass" ELSE behaviors[i],
                        i, request,
                        pipelineFromMemo(behaviors, i + 1, request, handle))

\* the closure that reduceRight builds for behaviors[i..], called once
RECURSIVE pipelineFrom(_, _, _, _)
pipelineFrom(behaviors, i, request, handle) ==
    IF i > Len(behaviors) THEN handle
    ELSE BehaviorHandle(behaviors[i], i, request,
                        pipelineFrom(behaviors, i + 1, request, handle))

\* a chain folded with reduce: the last behavior becomes the outermost
pipelineReversed(behaviors, request, handle) ==
    pipelineReduce(behaviors, Len(behaviors), request, handle)

\* a chain that is given the handler's result instead of the closure: the
\* handler is invoked before the chain, whatever the behaviors do
pipelineEagerHandle(behaviors, request, handle) ==
    LET ran == IF handle.tag = "throw" THEN handle ELSE Returned(<<>>, handle.val)
        p == pipelineFrom(behaviors, 1, request, ran)
    IN IF handle.tag = "throw" THEN handle ELSE [p EXCEPT !.log = handle.log \o p.log]

\* a chain that hands its behaviors a copy of the request
pipelineCloned(behaviors, request, handle) ==
    pipelineFrom(behaviors, 1, [request EXCEPT !.id = 3 - request.id], handle)

\* pipeline(): the whole chain, first behavior outermost
pipeline(behaviors, request, handle) == pipelineFrom(behaviors, 1, request, handle)

\* a send that looks the handler up only when the chain reaches its end
sendLateLookup(map, pb, request, hr) ==
    LET g == getHandler(map, request)
        handle == IF g.tag = "throw" THEN g
                  ELSE LET h == sendHandle(map[request.constructor], request, hr)
                       IN [h EXCEPT !.log = g.log \o h.log]
    IN pipeline(BehaviorsOrEmpty(pb), request, handle)

\* Mediator.send
send(map, pb, request, hr) ==
    LET g == getHandler(map, request)
    IN IF g.tag = "throw" THEN g
       ELSE LET handler == map[request.constructor]
                p == pipeline(BehaviorsOrEmpty(pb), request,
                              sendHandle(handler, request, hr))
            IN [p EXCEPT !.log = g.log \o p.log]

\* a sendAsync that catches and reports a failure of its own
sendAsyncWrapped(map, pb, request, hr) ==
    LET s == send(map, pb, request, hr)
        r == IF s.tag = "throw" THEN Rejected("async", s.error) ELSE firstValueFrom(s.val)
    IN Returned(s.log, IF r.error # NoError
                       THEN Rejected("async", <<"Request failed">>) ELSE r)

\* Mediator.sendAsync: an async function, so whatever send throws rejects the
\* returned promise
sendAsync(map, pb, request, hr) ==
    LET s == send(map, pb, request, hr)
    IN IF s.tag = "throw" THEN Returned(s.log, Rejected("async", s.error))
       ELSE Returned(s.log, firstValueFrom(s.val))

\* a sendSimple without the guard on the chain's result
sendSimpleUnguarded(map, pb, request, hr) ==
    LET g == getHandler(map, request)
    IN IF g.tag = "throw" THEN g
       ELSE LET p == pipeline(BehaviorsOrEmpty(pb), request,
                              sendSimpleHandle(map[request.constructor], request, hr))
            IN [p EXCEPT !.log = g.log \o p.log]

\* a sendSimple that tests the handler's result before running the chain
sendSimpleEarlyGuard(map, pb, request, hr) ==
    LET g == getHandler(map, request)
    IN IF g.tag = "throw" THEN g
       ELSE LET handler == map[request.constructor]
                h == sendSimpleHandle(handler, request, hr)
                p == pipeline(BehaviorsOrEmpty(pb), request, h)
                log == g.log \o p.log
            IN IF h.tag = "return" /\ (isObservable(h.val) \/ isPromise(h.val))
               THEN Thrown(g.log \o h.log, SynchronousOnly)
               ELSE IF p.tag = "throw" THEN [p EXCEPT !.log = log]
               ELSE IF isObservable(p.val) \/ isPromise(p.val)
               THEN Thrown(log, SynchronousOnly)
               ELSE Returned(log, p.val)

\* Mediator.sendSimple
sendSimple(map, pb, request, hr) ==
    LET g == getHandler(map, request)
    IN IF g.tag = "throw" THEN g
       ELSE LET handler == map[request.constructor]
                p == pipeline(BehaviorsOrEmpty(pb), request,
                              sendSimpleHandle(handler, request, hr))
                log == g.log \o p.log
            IN IF p.tag = "throw" THEN [p EXCEPT !.log = log]
               ELSE IF isObservable(p.val) \/ isPromise(p.val)
               THEN Thrown(log, SynchronousOnly)
               ELSE Returned(log, p.val)

\* a forEach that catches each handler's failure and goes on
RECURSIVE publishFromIsolated(_, _, _, _)
publishFromIsolated(handlerTypes, k, notification, failing) ==
    IF k > Len(handlerTypes) THEN Returned(<<>>, Undefined)
    ELSE LET rest == publishFromIsolated(handlerTypes, k + 1, notification, failing)
         IN [rest EXCEPT !.log = << Event("get", k, handlerTypes[k], notification),
                                    Event("handle", k, handlerTypes[k], notification) >>
                                 \o rest.log]

\* the forEach of Mediator.publish over handlerTypes[k..]: injector.get, then
\* handle; failing is the set of handler classes whose handle throws
RECURSIVE publishFrom(_, _, _, _)
publishFrom(handlerTypes, k, notification, failing) ==
    IF k > Len(handlerTypes) THEN Returned(<<>>, Undefined)
    ELSE LET handlerType == handlerTypes[k]
             log == << Event("get", k, handlerType, notification),
                       Event("handle", k, handlerType, notification) >>
         IN IF handlerType \in failing THEN Thrown(log, NotificationError)
            ELSE LET rest == publishFrom(handlerTypes, k + 1, notification, failing)
                 IN [rest EXCEPT !.log = log \o rest.log]

Reverse(seq) == [k \in 1..Len(seq) |-> seq[Len(seq) + 1 - k]]

\* a publish that walks the handler list from its end
publishReversed(map, notification, failing) ==
    IF MapHas(map, notification.constructor)
    THEN publishFrom(Reverse(map[notification.constructor]), 1, notification, failing)
    ELSE Returned(<<>>, Undefined)

\* a publish that treats a notification without handlers like a request
\* without handler
publishStrict(map, notification, failing) ==
    IF MapHas(map, notification.constructor)
    THEN publishFrom(map[notification.constructor], 1, notification, failing)
    ELSE Thrown(<<>>, <<"No handler found for notification: ",
                        ConstructorName(notification.constructor)>>)

\* the class that a class of the application extends, none for a base class:
\* UnhandledRequest extends TestRequest, AnotherNotification extends
\* TestNotification
SuperClass(c) ==
    IF c = UnhandledRequest THEN TestRequest
    ELSE IF c = AnotherNotification THEN TestNotification
    ELSE NoMetadata

\* a publish that falls back to the handlers of the notification's superclass
publishInherited(map, notification, failing) ==
    IF MapHas(map, notification.constructor)
    THEN publishFrom(map[notification.constructor], 1, notification, failing)
    ELSE IF MapHas(map, SuperClass(notification.constructor))
    THEN publishFrom(map[SuperClass(notification.constructor)], 1, notification, failing)
    ELSE Returned(<<>>, Undefined)

\* Mediator.publish
publish(map, notification, failing) ==
    IF MapHas(map, notification.constructor)
    THEN publishFrom(map[notification.constructor], 1, notification, failing)
    ELSE Returned(<<>>, Undefined)

(***************************************************************************)
(* The state machine.                                                      *)
(***************************************************************************)
BehaviorLists == SeqsUpTo(BehaviorKinds, MaxBehaviors)
PipelineProviders ==
    {[provided |-> FALSE, list |-> <<>>]}
        \cup {[provided |-> TRUE, list |-> bs] : bs \in BehaviorLists}

\* the last call made on the Mediator: the operation, its argument, what the
\* application's handler was set to do, and the completion
Call(op, arg, hr, failing, c) ==
    [op |-> op, arg |-> arg, hr |-> hr, failing |-> failing, tag |-> c.tag,
     log |-> c.log, val |-> c.val, error |-> c.error]

\* what the constructor of the Mediator received
Constructed(rm, nm, pb) ==
    [requestHandlerMap |-> rm, notificationHandlerMap |-> nm, pipelineBehaviors |-> pb]

NoCall == Call("none", [constructor |-> 0, id |-> 0], "none", {}, Returned(<<>>, Undefined))


Init ==
    /\ phase = "compose"
    /\ handlers = <<>>
    /\ providers = <<>>
    /\ requestHandlerMap = EmptyMap
    /\ notificationHandlerMap = EmptyMap
    /\ pipelineBehaviors = [provided |-> FALSE, list |-> <<>>]
    /\ call = NoCall
    /\ subscriptions = 0
    /\ delivered = <<>>
    /\ constructed = Constructed(EmptyMap, EmptyMap, [provided |-> FALSE, list |-> <<>>])
    /\ settled = {}

ProvideMediator(hs) ==
    /\ phase = "compose"
    /\ handlers' = hs
    /\ requestHandlerMap' = BuildRequestMap(hs, Len(hs))
    /\ notificationHandlerMap' = BuildNotificationMap(hs, Len(hs))
    /\ providers' = ProviderList(hs)
    /\ phase' = "provided"
    /\ UNCHANGED <<pipelineBehaviors, call, subscriptions, delivered, constructed,
                   settled>>

\* the injector consumes the provider array and builds the Mediator with the
\* two maps and, when the application provides it, PIPELINE_BEHAVIORS; the
\* class list and the provider array are not referenced afterwards
Bootstrap(pb) ==
    /\ phase = "provided"
    /\ phase' = "ready"
    /\ pipelineBehaviors' = pb
    /\ handlers' = <<>>
    /\ providers' = <<>>
    /\ constructed' = Constructed(requestHandlerMap, notificationHandlerMap, pb)
    /\ UNCHANGED <<requestHandlerMap, notificationHandlerMap,
                   call, subscriptions, delivered, settled>>

\* a dispatch that uses the behavior list up
DispatchedConsuming(c) ==
    /\ call' = c
    /\ subscriptions' = 0
    /\ delivered' = <<>>
    /\ settled' = {}
    /\ pipelineBehaviors' =
         IF pipelineBehaviors.list = <<>> THEN pipelineBehaviors
         ELSE [pipelineBehaviors EXCEPT !.list = Tail(pipelineBehaviors.list)]
    /\ UNCHANGED <<phase, handlers, providers, requestHandlerMap,
                   notificationHandlerMap, constructed>>

Dispatched(c) ==
    /\ call' = c
    /\ subscriptions' = 0
    /\ delivered' = <<>>
    /\ settled' = {}
    /\ UNCHANGED <<phase, handlers, providers, requestHandlerMap,
                   notificationHandlerMap, pipelineBehaviors, constructed>>

\* the handler results that can matter: none when no handler is registered
ResultsFor(request) ==
    IF MapHas(requestHandlerMap, request.constructor) THEN HandlerResults ELSE {"none"}

Send(request, hr) ==
    /\ phase = "ready"
    /\ call.op = "none"
    /\ Dispatched(Call("send", request, hr, {},
                       send(requestHandlerMap, pipelineBehaviors, request, hr)))

SendAsync(request, hr) ==
    /\ phase = "ready"
    /\ call.op = "none"
    /\ Dispatched(Call("sendAsync", request, hr, {},
                       sendAsync(requestHandlerMap, pipelineBehaviors, request, hr)))

SendSimple(request, hr) ==
    /\ phase = "ready"
    /\ call.op = "none"
    /\ Dispatched(Call("sendSimple", request, hr, {},
                       sendSimple(requestHandlerMap, pipelineBehaviors, request, hr)))

\* the handler classes whose handle can matter to a publish
NotifiedClasses(notification) ==
    IF MapHas(notificationHandlerMap, notification.constructor)
    THEN {notificationHandlerMap[notification.constructor][k] :
            k \in DOMAIN notificationHandlerMap[notification.constructor]}
    ELSE {}

Publish(notification, failing) ==
    /\ phase = "ready"
    /\ call.op = "none"
    /\ Dispatched(Call("publish", notification, "none", failing,
                       publish(notificationHandlerMap, notification, failing)))

\* a subscription that runs the handler again, as a send that deferred the
\* chain to the subscription would
SubscribeRerunning ==
    /\ phase = "ready"
    /\ call.op = "send"
    /\ call.tag = "return"
    /\ isObservable(call.val)
    /\ subscriptions < MaxSubscriptions
    /\ subscriptions' = subscriptions + 1
    /\ delivered' = [next |-> call.val.vals,
                     end |-> IF call.val.error = NoError THEN "complete" ELSE "error",
                     error |-> call.val.error]
    /\ call' = [call EXCEPT !.log = @ \o SelectSeq(@, LAMBDA e : e.ev = "handle")]
    /\ UNCHANGED <<phase, handlers, providers, requestHandlerMap,
                   notificationHandlerMap, pipelineBehaviors, constructed,
                   settled>>

\* the caller subscribes to the Observable that send returned
Subscribe ==
    /\ phase = "ready"
    /\ call.op = "send"
    /\ call.tag = "return"
    /\ isObservable(call.val)
    /\ subscriptions < MaxSubscriptions
    /\ subscriptions' = subscriptions + 1
    /\ delivered' = [next |-> call.val.vals,
                     end |-> IF call.val.error = NoError THEN "complete" ELSE "error",
                     error |-> call.val.error]
    /\ UNCHANGED <<phase, handlers, providers, requestHandlerMap,
                   notificationHandlerMap, pipelineBehaviors, call, constructed,
                   settled>>

\* the positions in the log of a publish of the handle calls that returned:
\* every one but a last one that threw
ReturnedHandles ==
    {k \in 1..Len(call.log) :
        /\ call.log[k].ev = "handle"
        /\ (k < Len(call.log) \/ call.tag = "return")}

\* a rejection of a handler's promise that is rethrown to the caller of publish
SettleReaching(k) ==
    /\ phase = "ready"
    /\ call.op = "publish"
    /\ k \in ReturnedHandles \ settled
    /\ settled' = settled \cup {k}
    /\ call' = [call EXCEPT !.tag = "throw", !.error = PromiseError]
    /\ UNCHANGED <<phase, handlers, providers, requestHandlerMap,
                   notificationHandlerMap, pipelineBehaviors,
                   subscriptions, delivered, constructed>>

\* the promise that the handle call at position k of the log returned rejects,
\* after publish has returned: publish dropped the value handle returned, so
\* nothing of the Mediator or of its caller sees the rejection
Settle(k) ==
    /\ phase = "ready"
    /\ call.op = "publish"
    /\ k \in ReturnedHandles \ settled
    /\ settled' = settled \cup {k}
    /\ UNCHANGED <<phase, handlers, providers, requestHandlerMap,
                   notificationHandlerMap, pipelineBehaviors, call,
                   subscriptions, delivered, constructed>>

\* the caller is done with the result of the call
Done ==
    /\ phase = "ready"
    /\ call.op # "none"
    /\ call' = NoCall
    /\ subscriptions' = 0
    /\ delivered' = <<>>
    /\ settled' = {}
    /\ UNCHANGED <<phase, handlers, providers, requestHandlerMap,
                   notificationHandlerMap, pipelineBehaviors, constructed>>

Next ==
    \/ /\ phase = "compose"
       /\ \E hs \in HandlerLists : ProvideMediator(hs)
    \/ /\ phase = "provided"
       /\ \E pb \in PipelineProviders : Bootstrap(pb)
    \/ /\ phase = "ready" /\ call.op = "none"
       /\ \E request \in Requests : \E hr \in ResultsFor(request) : Send(request, hr)
    \/ /\ phase = "ready" /\ call.op = "none"
       /\ \E request \in Requests : \E hr \in ResultsFor(request) : SendAsync(request, hr)
    \/ /\ phase = "ready" /\ call.op = "none"
       /\ \E request \in Requests : \E hr \in ResultsFor(request) : SendSimple(request, hr)
    \/ /\ phase = "ready" /\ call.op = "none"
       /\ \E notification \in Notifications :
            \E failing \in SUBSET NotifiedClasses(notification) :
               Publish(notification, failing)
    \/ Subscribe
    \/ /\ call.op = "publish"
       /\ \E k \in ReturnedHandles \ settled : Settle(k)
    \/ Done

Spec == Init /\ [][Next]_vars

(***************************************************************************)
(* Properties.                                                             *)
(***************************************************************************)
Behaviors == BehaviorsOrEmpty(pipelineBehaviors)
NumBehaviors == Len(Behaviors)
RequestOps == {"send", "sendAsync", "sendSimple"}
Registered == MapHas(requestHandlerMap, call.arg.constructor)
\* the behaviors that call their continuation exactly once
CallsOnce == {"pass", "replace"}
\* the behaviors that call their continuation at least once
CallsNext == {"pass", "replace", "twice"}
\* the behaviors that return their continuation's result unchanged
PassesResult == {"pass", "twice"}
AllBehaviorsIn(kinds) == \A i \in 1..NumBehaviors : Behaviors[i] \in kinds
AsyncResults == {"promise", "promiseRejected", "observable", "observableError"}
HandleEvents == SelectSeq(call.log, LAMBDA e : e.ev = "handle")
GetEvents == SelectSeq(call.log, LAMBDA e : e.ev = "get")
\* the events of the chain: everything after getHandler's injector.get
ChainEvents == SubSeq(call.log, 2, Len(call.log))

\* C1: a request whose constructor has no entry in the request map makes send
\* and sendSimple throw, and sendAsync reject with, the error 'No handler found
\* for request: <constructor name>', whatever behaviors are registered.
C1_HandlerNotFound ==
    (call.op \in RequestOps /\ ~Registered) =>
        LET expected == <<"No handler found for request: ",
                          ConstructorName(call.arg.constructor)>>
        IN /\ call.op \in {"send", "sendSimple"} =>
                 call.tag = "throw" /\ call.error = expected
           /\ call.op = "sendAsync" =>
                 /\ call.tag = "return"
                 /\ isPromise(call.val)
                 /\ call.val.vals = <<>>
                 /\ call.val.error = expected

C1_Witness ==
    /\ call.op = "sendAsync"
    /\ call.arg.constructor = UnhandledRequest
    /\ MapHas(requestHandlerMap, TestRequest)
    /\ NumBehaviors = 2
    /\ call.val.error = <<"No handler found for request: ", "UnhandledRequest">>

\* the order B1 pre, ..., Bn pre, H, Bn post, ..., B1 post
NestedOrder(n) ==
    [k \in 1..(2 * n + 1) |->
        IF k <= n THEN <<"pre", k>>
        ELSE IF k = n + 1 THEN <<"handle", 0>>
        ELSE <<"post", 2 * n + 2 - k>>]
EventOrder(log) == [k \in 1..Len(log) |-> <<log[k].ev, log[k].idx>>]

\* C2: with behaviors B1..Bn that each call their continuation exactly once
\* and a registered handler H, a dispatch by send or sendSimple (and by
\* sendAsync, which calls send) runs B1 pre, ..., Bn pre, H, Bn post, ...,
\* B1 post in this order when H's handle returns; when it throws, the order
\* stops after H.
C2_NestingOrder ==
    (call.op \in RequestOps /\ Registered /\ AllBehaviorsIn(CallsOnce)) =>
        IF call.hr = "throw"
        THEN EventOrder(ChainEvents) = SubSeq(NestedOrder(NumBehaviors), 1, NumBehaviors + 1)
        ELSE EventOrder(ChainEvents) = NestedOrder(NumBehaviors)

C2_Witness ==
    /\ call.op = "sendSimple"
    /\ Registered
    /\ NumBehaviors = 2
    /\ AllBehaviorsIn(CallsOnce)
    /\ call.hr = "value"
    /\ EventOrder(ChainEvents) =
          << <<"pre", 1>>, <<"pre", 2>>, <<"handle", 0>>, <<"post", 2>>, <<"post", 1>> >>

\* C3: publishing a notification whose constructor maps to [H1..Hn], none of
\* which throws, invokes H1.handle, ..., Hn.handle in this order, once per
\* list entry, each with the notification instance given to publish.
C3_PublishOrder ==
    (call.op = "publish" /\ MapHas(notificationHandlerMap, call.arg.constructor)
        /\ call.tag = "return") =>
        LET hs == notificationHandlerMap[call.arg.constructor]
        IN HandleEvents = [k \in 1..Len(hs) |-> Event("handle", k, hs[k], call.arg)]

C3_Witness ==
    /\ call.op = "publish"
    /\ call.tag = "return"
    /\ MapHas(notificationHandlerMap, call.arg.constructor)
    /\ notificationHandlerMap[call.arg.constructor] =
          <<"AnotherTestNotificationHandler", "TestNotificationHandler",
            "AnotherTestNotificationHandler">>
    /\ call.arg.id = 2
    /\ Len(HandleEvents) = 3

\* C4 as claimed: for a handler returning a Promise or an Observable,
\* sendSimple fails with the synchronous-only error for every list of
\* behaviors (none of which throws), those that replace or do not request the
\* handler's result included.
C4_Original ==
    (call.op = "sendSimple" /\ Registered /\ call.hr \in AsyncResults
        /\ AllBehaviorsIn(BehaviorKinds \ {"throw"})) =>
        (call.tag = "throw" /\ call.error = SynchronousOnly)

\* C4 (amended): for a handler returning a Promise or an Observable,
\* sendSimple fails with 'sendSimple can only be used with synchronous
\* handlers' when there are no behaviors or every behavior returns its
\* continuation's result; and with behaviors that each run their continuation,
\* it fails with this error exactly when the chain's result is a Promise or an
\* Observable, and returns the replacing synchronous value otherwise.
C4_SynchronousOnly ==
    (call.op = "sendSimple" /\ Registered /\ call.hr \in AsyncResults) =>
        /\ AllBehaviorsIn(PassesResult) =>
              (call.tag = "throw" /\ call.error = SynchronousOnly)
        /\ (AllBehaviorsIn(CallsNext) /\ ~AllBehaviorsIn(PassesResult)) =>
              (call.tag = "return" /\ call.val = Plain("behavior", "replaced"))

C4_Witness ==
    /\ call.op = "sendSimple"
    /\ Registered
    /\ call.hr = "promiseRejected"
    /\ NumBehaviors = 2
    /\ AllBehaviorsIn(PassesResult)
    /\ call.error = SynchronousOnly

\* C5: for a registered handler that returns the value V synchronously, with
\* no behaviors or only behaviors that return their continuation's result,
\* send returns an Observable that delivers V once and completes (and a
\* subscriber receives exactly that), sendAsync resolves to V and sendSimple
\* returns V itself.
C5_SynchronousValue ==
    (call.op \in RequestOps /\ Registered /\ call.hr = "value"
        /\ AllBehaviorsIn(PassesResult)) =>
        /\ call.tag = "return"
        /\ call.op = "send" =>
              /\ isObservable(call.val)
              /\ call.val.vals = <<"response">>
              /\ call.val.error = NoError
              /\ subscriptions > 0 =>
                    delivered = [next |-> <<"response">>, end |-> "complete",
                                 error |-> NoError]
        /\ call.op = "sendAsync" =>
              /\ isPromise(call.val)
              /\ call.val.vals = <<"response">>
              /\ call.val.error = NoError
        /\ call.op = "sendSimple" => call.val = Plain("handler", "response")

C5_Witness ==
    /\ call.op = "send"
    /\ Registered
    /\ call.hr = "value"
    /\ NumBehaviors = 1
    /\ AllBehaviorsIn(PassesResult)
    /\ subscriptions = 1
    /\ delivered.next = <<"response">>

ShortCircuits == {"short", "shortObservable"}
\* the value a short-circuiting behavior returns
ShortValue(kind) ==
    IF kind = "short" THEN Plain("behavior", "cached")
    ELSE ObservableOf("behavior", <<"cached">>, NoError)
\* Bi is run and returns without calling its continuation: B1..Bi-1 call theirs
ShortCircuitAt(i) ==
    /\ i \in 1..NumBehaviors
    /\ Behaviors[i] \in ShortCircuits
    /\ \A j \in 1..(i - 1) : Behaviors[j] \in CallsNext
\* what B1..Bi-1 pass back of the value v that Bi returns
PassedBack(i, v) ==
    IF \E j \in 1..(i - 1) : Behaviors[j] = "replace"
    THEN Plain("behavior", "replaced") ELSE v

FirstFailing(hs, failing, k) ==
    /\ k \in 1..Len(hs)
    /\ hs[k] \in failing
    /\ \A j \in 1..(k - 1) : hs[j] \notin failing

\* C7: when the k-th handler of the list throws from handle during publish,
\* handlers k+1..n are neither resolved from the injector nor invoked,
\* handlers 1..k-1 have each been invoked exactly once, and publish throws
\* that same error.
C7_PublishAborts ==
    (call.op = "publish" /\ MapHas(notificationHandlerMap, call.arg.constructor)) =>
        LET hs == notificationHandlerMap[call.arg.constructor]
        IN \A k \in 1..Len(hs) :
              FirstFailing(hs, call.failing, k) =>
                 /\ \A e \in 1..Len(call.log) : call.log[e].idx <= k
                 /\ \A j \in 1..(k - 1) :
                       Cardinality({e \in 1..Len(call.log) :
                                      call.log[e] = Event("handle", j, hs[j], call.arg)}) = 1
                 /\ Len(HandleEvents) = k
                 /\ Len(GetEvents) = k
                 /\ call.tag = "throw"
                 /\ call.error = NotificationError

C7_Witness ==
    /\ call.op = "publish"
    /\ MapHas(notificationHandlerMap, call.arg.constructor)
    /\ notificationHandlerMap[call.arg.constructor] =
          <<"TestNotificationHandler", "AnotherTestNotificationHandler",
            "TestNotificationHandler">>
    /\ call.failing = {"AnotherTestNotificationHandler"}
    /\ call.tag = "throw"
    /\ Len(HandleEvents) = 2

\* C8: publishing a notification whose constructor has no entry in the
\* notification map resolves no instance (no injector.get), invokes no handler
\* and raises no error.
C8_PublishUnregistered ==
    (call.op = "publish" /\ ~MapHas(notificationHandlerMap, call.arg.constructor)) =>
        /\ call.log = <<>>
        /\ call.tag = "return"
        /\ call.error = NoError

C8_Witness ==
    /\ call.op = "publish"
    /\ call.arg.constructor = AnotherNotification
    /\ MapHas(notificationHandlerMap, TestNotification)
    /\ call.tag = "return"

\* the first throwing behavior that is run: the behaviors before it call
\* their continuation
BehaviorThrowsAt(i) ==
    /\ i \in 1..NumBehaviors
    /\ Behaviors[i] = "throw"
    /\ \A j \in 1..(i - 1) : Behaviors[j] \in CallsNext

\* C9: a failure raised by the handler or by a behavior reaches the caller as
\* it is.  When the handler is reached and throws, or a behavior that is run
\* throws, send and sendSimple throw that very error across every enclosing
\* behavior and sendAsync rejects with it; and when the handler returns an
\* Observable that fails or a Promise that rejects, and the behaviors return
\* their continuation's result, sendAsync rejects with that very error.  With
\* behaviors that call their continuation once the handler is invoked once: a
\* failure is not retried.
C9_ErrorsPropagate ==
    (call.op \in RequestOps /\ Registered) =>
        LET failsWith(e) ==
                IF call.op = "sendAsync"
                THEN call.tag = "return" /\ isPromise(call.val)
                        /\ call.val.vals = <<>> /\ call.val.error = e
                ELSE call.tag = "throw" /\ call.error = e
        IN /\ (call.hr = "throw" /\ AllBehaviorsIn(CallsNext)) => failsWith(HandlerError)
           /\ (call.hr = "throw" /\ AllBehaviorsIn(CallsOnce)) => Len(HandleEvents) = 1
           /\ \A i \in 1..NumBehaviors : BehaviorThrowsAt(i) => failsWith(BehaviorError)
           /\ (call.op = "sendAsync" /\ AllBehaviorsIn(PassesResult)) =>
                 /\ call.hr = "observableError" => failsWith(ObservableError)
                 /\ call.hr = "promiseRejected" => failsWith(PromiseError)

C9_Witness ==
    /\ call.op = "sendSimple"
    /\ Registered
    /\ call.hr = "throw"
    /\ NumBehaviors = 2
    /\ AllBehaviorsIn(CallsNext)
    /\ call.tag = "throw"
    /\ call.error = HandlerError

\* the positions of the class list that declare the request type
Declaring(hs, request) == {k \in 1..Len(hs) : RequestHandlerMetadata(hs[k]) = request}
Last(S) == CHOOSE k \in S : \A j \in S : j <= k

\* C10: when the class list given to provideMediator holds two or more
\* classes declaring the same request type, provideMediator completes, and
\* the request map has one entry for that type: the class that comes last in
\* the list.
C10_LastWins ==
    \A request \in RequestTypes :
        (phase = "provided" /\ Cardinality(Declaring(handlers, request)) >= 2) =>
            /\ MapHas(requestHandlerMap, request)
            /\ requestHandlerMap[request] = handlers[Last(Declaring(handlers, request))]

C10_Witness ==
    /\ phase = "provided"
    /\ handlers = <<"OtherTestRequestHandler", "TestNotificationHandler", "TestRequestHandler">>
    /\ requestHandlerMap[TestRequest] = "TestRequestHandler"

\* C11 as claimed: after provideMediator, for every class of the list that
\* declares a request type R, the request map's entry for R is that class.
C11_Original ==
    phase = "provided" =>
        \A k \in 1..Len(handlers) :
            LET request == RequestHandlerMetadata(handlers[k])
            IN request # NoMetadata =>
                  /\ MapHas(requestHandlerMap, request)
                  /\ requestHandlerMap[request] = handlers[k]

\* C11 (amended): after provideMediator, for every class of the list that
\* declares a request type R, the request map has an entry for R, and it is the
\* last class of the list that declares R: it is that class whenever no other
\* class after it in the list declares R.
C11_RoundTrip ==
    phase = "provided" =>
        \A k \in 1..Len(handlers) :
            LET request == RequestHandlerMetadata(handlers[k])
            IN request # NoMetadata =>
                  /\ MapHas(requestHandlerMap, request)
                  /\ requestHandlerMap[request] = handlers[Last(Declaring(handlers, request))]
                  /\ (\A j \in (k + 1)..Len(handlers) :
                         RequestHandlerMetadata(handlers[j]) = request
                            => handlers[j] = handlers[k])
                        => requestHandlerMap[request] = handlers[k]

C11_Witness ==
    /\ phase = "provided"
    /\ handlers = <<"OtherTestRequestHandler", "NonHandlerClass">>
    /\ requestHandlerMap[TestRequest] = "OtherTestRequestHandler"

\* the classes of the list that declare the notification type, in list order
DeclaringNotification(hs, notification) ==
    SelectSeq(hs, LAMBDA h : NotificationHandlerMetadata(h) = notification)

\* C12: for every notification type N, the list that provideMediator stores
\* at N is the subsequence of the class list made of the classes declaring N,
\* in list order and with one entry per occurrence; a type that no class of the
\* list declares has no entry (not an empty list).
C12_NotificationLists ==
    phase = "provided" =>
        \A notification \in NotificationTypes :
            LET declaring == DeclaringNotification(handlers, notification)
            IN IF declaring = <<>>
               THEN ~MapHas(notificationHandlerMap, notification)
               ELSE /\ MapHas(notificationHandlerMap, notification)
                    /\ notificationHandlerMap[notification] = declaring

C12_Witness ==
    /\ phase = "provided"
    /\ handlers = <<"AnotherTestNotificationHandler", "TestNotificationHandler",
                    "AnotherTestNotificationHandler">>
    /\ notificationHandlerMap[TestNotification] = handlers
    /\ ~MapHas(notificationHandlerMap, AnotherNotification)

\* the values of a map
Range(m) == {m[k] : k \in DOMAIN m}
\* the metadata-free classes
WithoutMetadata ==
    {h \in HandlerClasses : /\ RequestHandlerMetadata(h) = NoMetadata
                            /\ NotificationHandlerMetadata(h) = NoMetadata}

\* C13: provideMediator(handlers) completes and returns [Mediator,
\* ...handlers, request-map provider, notification-map provider]: handlers.length
\* + 3 providers, every class of the list (those without metadata included) at
\* its place; the maps have entries only for the types that classes of the list
\* declare and hold no class without metadata; for the empty list both maps
\* are there and empty.
C13_Providers ==
    phase = "provided" =>
        /\ Len(providers) = Len(handlers) + 3
        /\ providers[1] = "Mediator"
        /\ \A k \in 1..Len(handlers) : providers[k + 1] = handlers[k]
        /\ providers[Len(handlers) + 2] = "REQUEST_HANDLER_MAP"
        /\ providers[Len(handlers) + 3] = "NOTIFICATION_HANDLER_MAP"
        /\ DOMAIN requestHandlerMap =
              {RequestHandlerMetadata(handlers[k]) : k \in 1..Len(handlers)} \ {NoMetadata}
        /\ DOMAIN notificationHandlerMap =
              {NotificationHandlerMetadata(handlers[k]) : k \in 1..Len(handlers)}
                 \ {NoMetadata}
        /\ Range(requestHandlerMap) \cap WithoutMetadata = {}
        /\ \A n \in DOMAIN notificationHandlerMap :
              Range(notificationHandlerMap[n]) \cap WithoutMetadata = {}
        /\ handlers = <<>> =>
              requestHandlerMap = EmptyMap /\ notificationHandlerMap = EmptyMap

C13_Witness ==
    /\ phase = "provided"
    /\ handlers = <<"NonHandlerClass", "TestRequestHandler", "NonHandlerClass">>
    /\ Len(providers) = 6
    /\ DOMAIN requestHandlerMap = {TestRequest}
    /\ notificationHandlerMap = EmptyMap

\* the handler's result in the single Observable shape: the handler's own
\* Observable, an Observable made from its Promise, or one made of its value
NormalizedResult(hr) ==
    CASE hr = "value" -> ObservableOf("of", <<"response">>, NoError)
      [] hr = "promise" -> ObservableOf("from", <<"response">>, NoError)
      [] hr = "promiseRejected" -> ObservableOf("from", <<>>, PromiseError)
      [] hr = "observable" -> ObservableOf("handler", <<"response">>, NoError)
      [] hr = "observableError" -> ObservableOf("handler", <<>>, ObservableError)
\* the handler's result as the handler returned it
RawResult(hr) ==
    CASE hr = "value" -> Plain("handler", "response")
      [] hr = "promise" -> Resolved("handler", "response")
      [] hr = "promiseRejected" -> Rejected("handler", PromiseError)
      [] hr = "observable" -> ObservableOf("handler", <<"response">>, NoError)
      [] hr = "observableError" -> ObservableOf("handler", <<>>, ObservableError)
ReturningResults == HandlerResults \ {"throw"}

\* C14 as claimed: in send, sendAsync and sendSimple alike, every call of the
\* innermost continuation returns the handler's result normalized to an
\* Observable, never the raw value or the raw Promise.
C14_Original ==
    (call.op \in RequestOps /\ Registered /\ call.hr \in ReturningResults) =>
        \A k \in 1..Len(call.log) :
            call.log[k].ev = "handle" => call.log[k].out = NormalizedResult(call.hr)

\* C14 (amended): in send and in sendAsync the handler's result is normalized
\* before it enters the chain: every call of the innermost continuation
\* returns the handler's own Observable, an Observable made from its Promise,
\* or a single-value Observable, never the raw value or Promise.  sendSimple
\* does not normalize: its innermost continuation returns what the handler
\* returned.
C14_Normalized ==
    (call.op \in RequestOps /\ Registered /\ call.hr \in ReturningResults) =>
        \A k \in 1..Len(call.log) :
            call.log[k].ev = "handle" =>
                IF call.op = "sendSimple"
                THEN call.log[k].out = RawResult(call.hr)
                ELSE /\ isObservable(call.log[k].out)
                     /\ call.log[k].out = NormalizedResult(call.hr)

C14_Witness ==
    /\ call.op = "sendAsync"
    /\ Registered
    /\ call.hr = "promise"
    /\ NumBehaviors = 2
    /\ Len(HandleEvents) = 1
    /\ HandleEvents[1].out = ObservableOf("from", <<"response">>, NoError)

\* C15: once the Mediator is constructed, whatever calls of send, sendAsync,
\* sendSimple and publish were made, succeeding or failing, the request map,
\* the notification map with its lists and the behavior list are what the
\* constructor received: no dispatch adds, removes or reorders an entry.
C15_RegistryUnchanged ==
    phase = "ready" =>
        /\ requestHandlerMap = constructed.requestHandlerMap
        /\ notificationHandlerMap = constructed.notificationHandlerMap
        /\ pipelineBehaviors = constructed.pipelineBehaviors

C15_Witness ==
    /\ phase = "ready"
    /\ call.op = "publish"
    /\ call.tag = "throw"
    /\ Len(call.log) = 2
    /\ MapHas(requestHandlerMap, TestRequest)
    /\ NumBehaviors = 2
    /\ requestHandlerMap = constructed.requestHandlerMap
    /\ notificationHandlerMap = constructed.notificationHandlerMap
    /\ pipelineBehaviors = constructed.pipelineBehaviors

\* C16 as claimed: in send, sendAsync and sendSimple alike, a request whose
\* runtime type has no entry in the request map makes the call itself throw
\* HandlerNotFound, before any behavior ran and before any handler instance
\* was resolved.
C16_Original ==
    (call.op \in RequestOps /\ ~Registered) =>
        /\ call.tag = "throw"
        /\ call.error = <<"No handler found for request: ",
                          ConstructorName(call.arg.constructor)>>
        /\ call.log = <<>>

\* C16 (amended): when the request's runtime type has no entry in the request
\* map, HandlerNotFound is raised before any behavior runs and before any
\* handler instance is resolved, in all three entry points; send and
\* sendSimple throw it from the call itself, while sendAsync, an async
\* function, returns a promise rejected with it.
C16_BeforeChain ==
    (call.op \in RequestOps /\ ~Registered) =>
        /\ call.log = <<>>
        /\ IF call.op = "sendAsync"
           THEN /\ call.tag = "return"
                /\ call.val = Rejected("async", <<"No handler found for request: ",
                                                  ConstructorName(call.arg.constructor)>>)
           ELSE /\ call.tag = "throw"
                /\ call.error = <<"No handler found for request: ",
                                  ConstructorName(call.arg.constructor)>>

C16_Witness ==
    /\ call.op = "sendSimple"
    /\ ~Registered
    /\ requestHandlerMap # EmptyMap
    /\ NumBehaviors = 2
    /\ AllBehaviorsIn({"pass"})
    /\ call.tag = "throw"
    /\ call.log = <<>>

\* C17: within one dispatch, every pipeline behavior that runs, before and
\* after its continuation, and the handler receive the very request instance
\* the caller passed in; no behavior makes a later one or the handler receive
\* another request.
C17_SameRequest ==
    call.op \in RequestOps =>
        \A k \in 1..Len(call.log) : call.log[k].arg = call.arg

C17_Witness ==
    /\ call.op = "send"
    /\ Registered
    /\ call.arg.id = 2
    /\ NumBehaviors = 2
    /\ Behaviors = <<"replace", "pass">>
    /\ EventOrder(ChainEvents) = NestedOrder(2)
    /\ \A k \in 1..Len(call.log) : call.log[k].arg.id = 2

\* C18: publish invokes the handlers one after the other without awaiting
\* them: when no handler throws, every handler of the list is invoked, in
\* list order, whether or not an earlier one returned a promise, and publish
\* returns normally; a promise of handler k that rejects afterwards removes no
\* invocation of handlers k+1..n and does not reach the caller of publish.
C18_NeverAwaits ==
    (/\ call.op = "publish"
     /\ call.failing = {}
     /\ MapHas(notificationHandlerMap, call.arg.constructor)) =>
        LET hs == notificationHandlerMap[call.arg.constructor]
        IN /\ call.tag = "return"
           /\ call.error = NoError
           /\ call.val = Undefined
           /\ Len(HandleEvents) = Len(hs)
           /\ \A k \in 1..Len(hs) :
                /\ HandleEvents[k].cls = hs[k]
                /\ HandleEvents[k].idx = k
           /\ settled \subseteq ReturnedHandles

C18_Witness ==
    /\ call.op = "publish"
    /\ call.failing = {}
    /\ MapHas(notificationHandlerMap, call.arg.constructor)
    /\ Len(notificationHandlerMap[call.arg.constructor]) = 2
    /\ settled = {2}
    /\ call.log[2].idx = 1
    /\ Len(HandleEvents) = 2
    /\ call.tag = "return"

\* C19: the guard of sendSimple runs after the whole chain: when sendSimple
\* fails with the synchronous-only error for a handler that returns a Promise
\* or an Observable, and every behavior calls its continuation once, each
\* behavior's pre-logic, the handler's handle and each behavior's post-logic
\* have already run, each exactly once, in nesting order.
C19_GuardAfterChain ==
    (/\ call.op = "sendSimple"
     /\ Registered
     /\ call.hr \in AsyncResults
     /\ AllBehaviorsIn(CallsOnce)
     /\ call.tag = "throw"
     /\ call.error = SynchronousOnly) =>
        /\ EventOrder(ChainEvents) = NestedOrder(NumBehaviors)
        /\ Len(HandleEvents) = 1
        /\ HandleEvents[1].cls = requestHandlerMap[call.arg.constructor]

C19_Witness ==
    /\ call.op = "sendSimple"
    /\ Registered
    /\ call.hr = "observable"
    /\ Behaviors = <<"pass", "pass">>
    /\ call.tag = "throw"
    /\ call.error = SynchronousOnly
    /\ EventOrder(ChainEvents) =
         << <<"pre", 1>>, <<"pre", 2>>, <<"handle", 0>>, <<"post", 2>>, <<"post", 1>> >>

\* the failure of a request call: what send and sendSimple threw, what the
\* promise of sendAsync was rejected with
CallError == IF call.op = "sendAsync" THEN call.val.error ELSE call.error

\* C20: handlers are looked up by the exact runtime class.  A request whose
\* class is not a key of the request map, a subclass of a registered request
\* type included, is never handed to the handler registered for another type:
\* no handler instance is resolved, no handle runs, and the call fails with
\* HandlerNotFound naming the request's own class.  A notification whose
\* class is not a key of the notification map, a subclass of a registered
\* notification type included, reaches none of the handlers of another type.
C20_ExactType ==
    /\ (call.op \in RequestOps /\ ~MapHas(requestHandlerMap, call.arg.constructor)) =>
          /\ GetEvents = <<>>
          /\ HandleEvents = <<>>
          /\ CallError = <<"No handler found for request: ",
                           ConstructorName(call.arg.constructor)>>
          /\ MapHas(requestHandlerMap, SuperClass(call.arg.constructor)) =>
                CallError # <<"No handler found for request: ",
                              ConstructorName(SuperClass(call.arg.constructor))>>
    /\ (call.op = "publish" /\ ~MapHas(notificationHandlerMap, call.arg.constructor)) =>
          /\ GetEvents = <<>>
          /\ HandleEvents = <<>>
          /\ call.tag = "return"

C20_Witness ==
    /\ call.op = "publish"
    /\ call.arg.constructor = AnotherNotification
    /\ SuperClass(call.arg.constructor) = TestNotification
    /\ MapHas(notificationHandlerMap, TestNotification)
    /\ Len(notificationHandlerMap[TestNotification]) = 2
    /\ ~MapHas(notificationHandlerMap, AnotherNotification)
    /\ HandleEvents = <<>>

\* C21: send runs the chain when it is called: with behaviors that each call
\* their continuation once, the handler's handle has been invoked exactly once
\* when send returns, and it stays exactly once whether the Observable that
\* send returned is subscribed zero, one or several times.
C21_EagerChain ==
    (/\ call.op = "send"
     /\ Registered
     /\ AllBehaviorsIn(CallsOnce)
     /\ call.tag = "return") =>
        /\ subscriptions \in 0..MaxSubscriptions
        /\ Len(HandleEvents) = 1
        /\ HandleEvents[1].cls = requestHandlerMap[call.arg.constructor]
        /\ EventOrder(ChainEvents) = NestedOrder(NumBehaviors)

C21_Witness ==
    /\ call.op = "send"
    /\ Registered
    /\ Behaviors = <<"pass", "pass">>
    /\ call.hr = "promise"
    /\ call.tag = "return"
    /\ subscriptions = 2
    /\ delivered # <<>>
    /\ Len(HandleEvents) = 1

\* how often a behavior of each kind calls its continuation when no call of
\* it fails
Calls(kind) ==
    CASE kind \in {"pass", "replace"} -> 1
      [] kind = "twice" -> 2
      [] kind \in {"short", "shortObservable", "throw"} -> 0
\* how often the j-th behavior was invoked in the dispatch
Invocations(j) ==
    Len(SelectSeq(call.log, LAMBDA e : e.ev = "pre" /\ e.idx = j))

\* C22: every call of a continuation runs the whole rest of the chain again.
\* In a dispatch whose handler does not throw, when the behavior Bi calls its
\* continuation k times (k = 0, 1 or 2) and every other behavior calls its
\* continuation once, B1..Bi are invoked once and B(i+1)..Bn and the handler
\* exactly k times each; and whatever the behaviors are, handle is invoked as
\* often as the innermost continuation is called: once without behaviors,
\* otherwise once for each call the last behavior makes in each of its
\* invocations.
C22_Reexecutes ==
    (call.op \in RequestOps /\ Registered /\ call.hr # "throw") =>
        /\ \A i \in 1..NumBehaviors :
              (\A j \in (1..NumBehaviors) \ {i} : Behaviors[j] \in CallsOnce) =>
                  /\ \A j \in 1..i : Invocations(j) = 1
                  /\ \A j \in (i + 1)..NumBehaviors :
                        Invocations(j) = Calls(Behaviors[i])
                  /\ Len(HandleEvents) = Calls(Behaviors[i])
        /\ Len(HandleEvents) =
              IF NumBehaviors = 0 THEN 1
              ELSE Invocations(NumBehaviors) * Calls(Behaviors[NumBehaviors])

C22_Witness ==
    /\ call.op = "sendSimple"
    /\ Registered
    /\ call.hr = "value"
    /\ Behaviors = <<"twice", "pass">>
    /\ Invocations(1) = 1
    /\ Invocations(2) = 2
    /\ Len(HandleEvents) = 2
====
